---------------------------- MODULE Spec2Model ----------------------------
(***************************************************************************)
(* SV39 page table of os/src/mm/page_table.rs over a small physical        *)
(* memory.                                                                 *)
(*                                                                         *)
(* A machine word (usize, 64 bits) is the set of the positions of its 1    *)
(* bits, so that `&` is intersection, `|` is union and a shift moves the   *)
(* positions and drops those that leave 0..63.  A PTEFlags value (u8) is   *)
(* the set of its 1 bits within 0..7.                                      *)
(*                                                                         *)
(* Physical memory is a function from physical page numbers to page-table  *)
(* nodes; a node is modelled on the slots the virtual page numbers of the  *)
(* model can index.                                                        *)
(***************************************************************************)
EXTENDS Integers, Sequences, FiniteSets, TLC

(***************************************************************************)
(* Bounds of the model.                                                    *)
(***************************************************************************)
\* Frames the allocator manages: page numbers 1..NFrames.
NFrames == 4
\* PageTable objects constructed in a run.
MaxTables == 2
\* Conversions applied in a row to one raw word.
MaxSteps == 3

(***************************************************************************)
(* Machine words.                                                          *)
(***************************************************************************)
WordBits == 0..63

\* (1 << n) - 1
LowMask(n) == 0..(n - 1)

\* w << k on a 64-bit word
Shl(w, k) == {b + k : b \in {x \in w : x + k <= 63}}

\* w >> k
Shr(w, k) == {b - k : b \in {x \in w : x >= k}}

RECURSIVE ToWord(_)
\* The word holding the natural number n.
ToWord(n) ==
    IF n = 0 THEN {}
    ELSE (IF n % 2 = 1 THEN {0} ELSE {}) \cup Shl(ToWord(n \div 2), 1)

RECURSIVE Pow2(_)
Pow2(n) == IF n = 0 THEN 1 ELSE 2 * Pow2(n - 1)

RECURSIVE ToNat(_)
\* The number a word holds (used on words below 2^30 only).
ToNat(w) ==
    IF w = {} THEN 0
    ELSE LET b == CHOOSE x \in w : TRUE IN Pow2(b) + ToNat(w \ {b})

\* !w
Not(w) == WordBits \ w

\* a < b as unsigned numbers: the highest bit in which they differ is b's.
Less(a, b) == \E i \in b \ a : \A j \in a \ b : j < i

RECURSIVE AddFrom(_, _, _, _)
\* Bits i..63 of a + b + carry into bit i (the carry out of bit 63 is lost).
AddFrom(a, b, i, carry) ==
    IF i > 63 THEN {}
    ELSE LET n == (IF i \in a THEN 1 ELSE 0) + (IF i \in b THEN 1 ELSE 0) + carry
         IN  (IF n % 2 = 1 THEN {i} ELSE {}) \cup AddFrom(a, b, i + 1, n \div 2)

\* usize::wrapping_add, usize::wrapping_sub
wrapping_add(a, b) == AddFrom(a, b, 0, 0)
wrapping_sub(a, b) == AddFrom(a, Not(b), 0, 1)

\* a + b does not fit in 64 bits: the wrapped sum is below a.
add_overflows(a, b) == Less(wrapping_add(a, b), a)

(***************************************************************************)
(* address.rs                                                              *)
(***************************************************************************)
PA_WIDTH_SV39 == 56
VA_WIDTH_SV39 == 39
PAGE_SIZE_BITS == 12
PPN_WIDTH_SV39 == PA_WIDTH_SV39 - PAGE_SIZE_BITS
VPN_WIDTH_SV39 == VA_WIDTH_SV39 - PAGE_SIZE_BITS

\* impl From<usize> for PhysPageNum: v & ((1 << PPN_WIDTH_SV39) - 1)
PhysPageNum_from(v) == v \cap LowMask(PPN_WIDTH_SV39)

\* impl From<usize> for VirtPageNum: v & ((1 << VPN_WIDTH_SV39) - 1)
VirtPageNum_from(v) == v \cap LowMask(VPN_WIDTH_SV39)

\* VirtPageNum::indexes: the three 9-bit fields, most significant first
\* (index[0] = bits 26..18, index[1] = bits 17..9, index[2] = bits 8..0).
indexes(vpn) ==
    << ToNat(Shr(vpn, 18) \cap LowMask(9)),
       ToNat(Shr(vpn, 9) \cap LowMask(9)),
       ToNat(vpn \cap LowMask(9)) >>

(***************************************************************************)
(* PTEFlags and PageTableEntry                                             *)
(***************************************************************************)
PTEFlags_V == {0}
PTEFlags_R == {1}
PTEFlags_W == {2}
PTEFlags_X == {3}
PTEFlags_U == {4}
PTEFlags_G == {5}
PTEFlags_A == {6}
PTEFlags_D == {7}

\* PageTableEntry::new: bits = ppn.0 << 10 | flags.bits as usize
\* Faulty variant of PageTableEntry_new: the page number is shifted by the
\* width of the flags only.
PageTableEntry_new_shift8(ppn, flags) == Shl(ppn, 8) \cup flags

PageTableEntry_new(ppn, flags) == Shl(ppn, 10) \cup flags

\* PageTableEntry::empty
PageTableEntry_empty == {}

\* PageTableEntry::ppn: (bits >> 10 & ((1 << 44) - 1)).into()
PageTableEntry_ppn(bits) == PhysPageNum_from(Shr(bits, 10) \cap LowMask(44))

\* PageTableEntry::flags: from_bits(bits as u8).unwrap(); the eight flags
\* cover every bit of the byte, so from_bits never yields None.
PageTableEntry_flags(bits) == bits \cap LowMask(8)

\* PageTableEntry::is_valid: (flags() & V) != empty()
is_valid(bits) == (PageTableEntry_flags(bits) \cap PTEFlags_V) # {}


(***************************************************************************)
(* Inputs of the model.                                                    *)
(***************************************************************************)
\* Frames managed by the frame allocator.
PoolPPNs == {ToWord(i) : i \in 1..NFrames}

\* Physical pages a leaf entry is pointed at: 0x80000 and the largest
\* 44-bit page number.
LeafPPNs == {ToWord(524288), LowMask(PPN_WIDTH_SV39)}

\* The physical memory of the model.
PPNS == PoolPPNs \cup LeafPPNs

\* Virtual page numbers: 0 and 1 share every node, 0x200 shares the
\* second-level node of 0 only, 0x40000 shares the root only.
VPNS == {ToWord(0), ToWord(1), ToWord(512), ToWord(262144)}

\* Fields of a satp word above the root page number (MODE, ASID).
SatpHigh == {{}, {63}, {44, 60}}

TableIds == 1..MaxTables

\* The slots of a node that a walk of the model can index.
Slots == UNION {{indexes(v)[1], indexes(v)[2], indexes(v)[3]} : v \in VPNS}

\* A zeroed frame.
ZeroPage == [i \in Slots |-> PageTableEntry_empty]

Range(s) == {s[i] : i \in DOMAIN s}

(***************************************************************************)
(* State.                                                                  *)
(*   mem       physical memory: the entries of every modelled frame        *)
(*   free      the frames the allocator holds                              *)
(*   live      the PageTable objects that exist                            *)
(*   root_ppn  PageTable.root_ppn of each                                  *)
(*   frames    PageTable.frames of each (the FrameTrackers it owns)        *)
(*   halted    the panic that has shut the machine down, or Running        *)
(* History variables, read by the properties only:                         *)
(*   built     how each table was constructed: "new" or "token"            *)
(*   called    the vpns on which map has returned, per table               *)
(*   latest    the last map or unmap that has returned, per table and vpn  *)
(* Values of address.rs and page-table entries, for the conversions:       *)
(*   overflow_checks  whether the build panics on integer overflow         *)
(*   arg       the raw word the run started from                           *)
(*   ty        the type of the value at hand                               *)
(*   val       the value at hand (the wrapped usize)                       *)
(*   steps     the conversions applied so far, each with its input         *)
(***************************************************************************)
VARIABLES mem, free, live, root_ppn, frames, halted, built, called, latest,
          overflow_checks, arg, ty, val, steps

addrVars == <<overflow_checks, arg, ty, val, steps>>

vars == <<mem, free, live, root_ppn, frames, halted, built, called, latest,
          overflow_checks, arg, ty, val, steps>>

\* latest: nothing has returned yet / the map or unmap that returned last.
NoOp == [op |-> "none", ppn |-> {}, flags |-> {}]
MapOp(ppn, flags) == [op |-> "map", ppn |-> ppn, flags |-> flags]
UnmapOp == [op |-> "unmap", ppn |-> {}, flags |-> {}]

NoPPN == {}

\* The panics of page_table.rs (lang_items.rs: a panic shuts the machine down).
Running == "running"
PanicFrameAlloc == "frame_alloc().unwrap() on None"
PanicMapAssert == "vpn is mapped before mapping"
PanicUnmapUnwrap == "find_pte(vpn).unwrap() on None"
PanicUnmapAssert == "vpn is invalid before unmapping"

\* No PageTable exists and every frame is with the allocator.
InitTables ==
    /\ mem = [p \in PPNS |-> ZeroPage]
    /\ free = PoolPPNs
    /\ live = {}
    /\ root_ppn = [t \in TableIds |-> NoPPN]
    /\ frames = [t \in TableIds |-> <<>>]
    /\ halted = Running
    /\ built = [t \in TableIds |-> "none"]
    /\ called = [t \in TableIds |-> {}]
    /\ latest = [t \in TableIds |-> [v \in VPNS |-> NoOp]]

Init ==
    /\ InitTables
    /\ overflow_checks = FALSE
    /\ arg = {}
    /\ ty = "usize"
    /\ val = {}
    /\ steps = <<>>

(***************************************************************************)
(* address.rs: conversions and rounding.  A value of one of the four types *)
(* is its wrapped usize.  An operation that can panic yields a record      *)
(* [panic, val]; `checks` tells whether the build has overflow checks      *)
(* (debug: `-` and `+` panic on overflow) or not (release: they wrap).     *)
(***************************************************************************)
PanicAssertEq == "assertion failed: v.page_offset() == 0"
PanicOverflow == "attempt to subtract or add with overflow"

Ok(w) == [panic |-> Running, val |-> w]
Panicked(reason) == [panic |-> reason, val |-> {}]

\* a - b and a + b on usize
usize_sub(a, b, checks) ==
    IF Less(a, b) /\ checks THEN Panicked(PanicOverflow) ELSE Ok(wrapping_sub(a, b))

usize_add(a, b, checks) ==
    IF add_overflows(a, b) /\ checks THEN Panicked(PanicOverflow)
    ELSE Ok(wrapping_add(a, b))

\* config::PAGE_SIZE = 1 << PAGE_SIZE_BITS (4096)
PAGE_SIZE == Shl({0}, PAGE_SIZE_BITS)

\* w / PAGE_SIZE: PAGE_SIZE is a power of two, the quotient is the shift.
div_PAGE_SIZE(w) == Shr(w, PAGE_SIZE_BITS)

\* Faulty variant of PhysAddr_from: masked to the virtual width.
PhysAddr_from_va_width(v) == v \cap LowMask(VA_WIDTH_SV39)

\* impl From<usize> for PhysAddr: v & ((1 << PA_WIDTH_SV39) - 1)
PhysAddr_from(v) == v \cap LowMask(PA_WIDTH_SV39)

\* impl From<usize> for VirtAddr: v & ((1 << VA_WIDTH_SV39) - 1)
VirtAddr_from(v) == v \cap LowMask(VA_WIDTH_SV39)

\* Faulty variant of usize_from_VirtAddr: the test is on bit 39, not bit 38.
usize_from_VirtAddr_bit39(v) ==
    IF ~Less(v, Shl({0}, VA_WIDTH_SV39)) THEN v \cup Not(LowMask(VA_WIDTH_SV39))
    ELSE v

\* impl From<VirtAddr> for usize:
\* if v.0 >= (1 << (VA_WIDTH_SV39 - 1)) { v.0 | !((1 << VA_WIDTH_SV39) - 1) } else { v.0 }
usize_from_VirtAddr(v) ==
    IF ~Less(v, Shl({0}, VA_WIDTH_SV39 - 1)) THEN v \cup Not(LowMask(VA_WIDTH_SV39))
    ELSE v

\* impl From<PhysAddr> for usize, From<PhysPageNum>, From<VirtPageNum>: v.0
usize_from_PhysAddr(v) == v
usize_from_PhysPageNum(v) == v
usize_from_VirtPageNum(v) == v

\* VirtAddr::page_offset: self.0 & (PAGE_SIZE - 1)
VirtAddr_page_offset(v) == v \cap wrapping_sub(PAGE_SIZE, {0})

\* VirtAddr::aligned
VirtAddr_aligned(v) == VirtAddr_page_offset(v) = {}

\* VirtAddr::floor: self.0 / PAGE_SIZE
VirtAddr_floor(v) == div_PAGE_SIZE(v)

\* VirtAddr::ceil: (self.0 - 1 + PAGE_SIZE) / PAGE_SIZE
VirtAddr_ceil(v, checks) ==
    LET d == usize_sub(v, {0}, checks)
        s == usize_add(d.val, PAGE_SIZE, checks)
    IN  IF d.panic # Running THEN d
        ELSE IF s.panic # Running THEN s
        ELSE Ok(div_PAGE_SIZE(s.val))

\* Faulty variant of VirtPageNum_from_VirtAddr: the assertion is missing.
VirtPageNum_from_VirtAddr_unchecked(v) == Ok(VirtAddr_floor(v))

\* impl From<VirtAddr> for VirtPageNum: assert_eq!(v.page_offset(), 0); v.floor()
VirtPageNum_from_VirtAddr(v) ==
    IF VirtAddr_page_offset(v) # {} THEN Panicked(PanicAssertEq)
    ELSE Ok(VirtAddr_floor(v))

\* impl From<VirtPageNum> for VirtAddr: Self(v.0 << PAGE_SIZE_BITS)
VirtAddr_from_VirtPageNum(v) == Shl(v, PAGE_SIZE_BITS)

\* PhysAddr::page_offset: self.0 & (PAGE_SIZE - 1)
PhysAddr_page_offset(v) == v \cap wrapping_sub(PAGE_SIZE, {0})

\* PhysAddr::aligned
PhysAddr_aligned(v) == PhysAddr_page_offset(v) = {}

\* PhysAddr::floor: self.0 / PAGE_SIZE
PhysAddr_floor(v) == div_PAGE_SIZE(v)

\* Faulty variant of PhysAddr_ceil: the `- 1` is left out.
PhysAddr_ceil_no_sub(v, checks) ==
    LET s == usize_add(v, PAGE_SIZE, checks)
    IN  IF s.panic # Running THEN s ELSE Ok(div_PAGE_SIZE(s.val))

\* PhysAddr::ceil: (self.0 - 1 + PAGE_SIZE) / PAGE_SIZE
PhysAddr_ceil(v, checks) ==
    LET d == usize_sub(v, {0}, checks)
        s == usize_add(d.val, PAGE_SIZE, checks)
    IN  IF d.panic # Running THEN d
        ELSE IF s.panic # Running THEN s
        ELSE Ok(div_PAGE_SIZE(s.val))

\* impl From<PhysAddr> for PhysPageNum: assert_eq!(v.page_offset(), 0); v.floor()
PhysPageNum_from_PhysAddr(v) ==
    IF PhysAddr_page_offset(v) # {} THEN Panicked(PanicAssertEq)
    ELSE Ok(PhysAddr_floor(v))

\* Faulty variant of PhysAddr_from_PhysPageNum: the shift count is the page
\* number width, not the offset width.
PhysAddr_from_PhysPageNum_wide(v) == Shl(v, PPN_WIDTH_SV39)

\* impl From<PhysPageNum> for PhysAddr: Self(v.0 << PAGE_SIZE_BITS)
PhysAddr_from_PhysPageNum(v) == Shl(v, PAGE_SIZE_BITS)

(***************************************************************************)
(* The frame allocator (frame_alloc, FrameTracker): a frame handed out is  *)
(* one the allocator holds, and it is zeroed; an empty allocator yields    *)
(* None.  A FrameTracker that is dropped gives its frame back.  Which of   *)
(* its frames the allocator hands out is its own business: the model lets  *)
(* it take either end of what it holds.                                    *)
(***************************************************************************)
frame_alloc(fr) ==
    {f \in fr : \/ \A g \in fr : ToNat(f) <= ToNat(g)
                \/ \A g \in fr : ToNat(f) >= ToNat(g)}

frame_zeroed(m, pick) == [m EXCEPT ![pick] = ZeroPage]

frame_dealloc(fr, owned) == fr \cup Range(owned)

(***************************************************************************)
(* PageTable::find_pte: the read-only walk.  The result is the place of    *)
(* the level-2 slot (Some(&mut pte)) or none.                              *)
(***************************************************************************)
NoSlot == [some |-> FALSE, ppn |-> NoPPN, idx |-> 0]

\* Faulty variant of find_pte: an invalid leaf slot is reported as none.
find_pte_valid_only(m, root, vpn) ==
    LET idxs == indexes(vpn)
        pte0 == m[root][idxs[1]]
        ppn1 == PageTableEntry_ppn(pte0)
        pte1 == m[ppn1][idxs[2]]
        ppn2 == PageTableEntry_ppn(pte1)
    IN  IF ~is_valid(pte0) THEN NoSlot
        ELSE IF ~is_valid(pte1) THEN NoSlot
        ELSE IF ~is_valid(m[ppn2][idxs[3]]) THEN NoSlot
        ELSE [some |-> TRUE, ppn |-> ppn2, idx |-> idxs[3]]

find_pte(m, root, vpn) ==
    LET idxs == indexes(vpn)
        pte0 == m[root][idxs[1]]
        ppn1 == PageTableEntry_ppn(pte0)
        pte1 == m[ppn1][idxs[2]]
        ppn2 == PageTableEntry_ppn(pte1)
    IN  IF ~is_valid(pte0) THEN NoSlot
        ELSE IF ~is_valid(pte1) THEN NoSlot
        ELSE [some |-> TRUE, ppn |-> ppn2, idx |-> idxs[3]]

\* PageTable::translate: find_pte(vpn).map(|pte| *pte)
translate(m, root, vpn) ==
    LET s == find_pte(m, root, vpn)
    IN  IF s.some THEN [some |-> TRUE, pte |-> m[s.ppn][s.idx]]
        ELSE [some |-> FALSE, pte |-> PageTableEntry_empty]

(***************************************************************************)
(* PageTable::find_pte_create.  create_step is one iteration of the loop   *)
(* for a non-leaf level (i < 2).  st carries the walk: the memory, the     *)
(* allocator, the table's frames, the current node, and the panic of       *)
(* frame_alloc().unwrap() if it happened.  pick is the frame the           *)
(* allocator hands out if asked.                                           *)
(***************************************************************************)
\* Faulty variant of node_entry: the entry carries the leaf permissions too.
node_entry_rwx(ppn) ==
    PageTableEntry_new(ppn, PTEFlags_V \cup PTEFlags_R \cup PTEFlags_W \cup PTEFlags_X)

\* The entry installed for a new intermediate node.
node_entry(ppn) == PageTableEntry_new(ppn, PTEFlags_V)

\* Faulty variant of step_allocates: every iteration allocates a node.
step_allocates_always(pte) == TRUE

\* if !pte.is_valid(): the iteration allocates
step_allocates(pte) == ~is_valid(pte)

\* Faulty variant of create_step: the frame is not pushed to frames (its
\* FrameTracker is dropped at once and the frame goes back to the allocator).
create_step_no_push(st, idx, pick) ==
    LET pte == st.mem[st.ppn][idx]
        new_pte == node_entry(pick)
    IN  IF st.panic # Running THEN st
        ELSE IF ~step_allocates(pte)
             THEN [st EXCEPT !.ppn = PageTableEntry_ppn(pte)]
        ELSE IF st.free = {}
             THEN [st EXCEPT !.panic = PanicFrameAlloc]
        ELSE [st EXCEPT !.mem = [frame_zeroed(st.mem, pick) EXCEPT ![st.ppn][idx] = new_pte],
                        !.ppn = PageTableEntry_ppn(new_pte)]

\* Faulty variant of create_step: frames is overwritten with the new frame.
create_step_replace(st, idx, pick) ==
    LET pte == st.mem[st.ppn][idx]
        new_pte == node_entry(pick)
    IN  IF st.panic # Running THEN st
        ELSE IF ~step_allocates(pte)
             THEN [st EXCEPT !.ppn = PageTableEntry_ppn(pte)]
        ELSE IF st.free = {}
             THEN [st EXCEPT !.panic = PanicFrameAlloc]
        ELSE [mem    |-> [frame_zeroed(st.mem, pick) EXCEPT ![st.ppn][idx] = new_pte],
              free   |-> (st.free \ {pick}) \cup Range(st.frames),
              frames |-> <<pick>>,
              ppn    |-> PageTableEntry_ppn(new_pte),
              panic  |-> Running]

create_step(st, idx, pick) ==
    LET pte == st.mem[st.ppn][idx]
        new_pte == node_entry(pick)
    IN  IF st.panic # Running THEN st
        ELSE IF ~step_allocates(pte)
             THEN [st EXCEPT !.ppn = PageTableEntry_ppn(pte)]
        ELSE IF st.free = {}
             THEN [st EXCEPT !.panic = PanicFrameAlloc]
        ELSE [mem    |-> [frame_zeroed(st.mem, pick) EXCEPT ![st.ppn][idx] = new_pte],
              free   |-> st.free \ {pick},
              frames |-> Append(st.frames, pick),
              ppn    |-> PageTableEntry_ppn(new_pte),
              panic  |-> Running]

walk_start(m, fr, owned, root) ==
    [mem |-> m, free |-> fr, frames |-> owned, ppn |-> root, panic |-> Running]

\* The walk after levels 0 and 1; its ppn is the node holding the leaf slot.
find_pte_create(m, fr, owned, root, vpn, pick0, pick1) ==
    LET idxs == indexes(vpn)
        st1 == create_step(walk_start(m, fr, owned, root), idxs[1], pick0)
    IN  create_step(st1, idxs[2], pick1)

\* No frame: the pick of an iteration that does not reach the allocator.
NoPick == {-1}

\* The frames the allocator may hand out in this iteration.
offers(st, idx) ==
    IF st.panic = Running /\ step_allocates(st.mem[st.ppn][idx]) /\ st.free # {}
    THEN frame_alloc(st.free) ELSE {NoPick}

(***************************************************************************)
(* PageTable::map.  The result is the memory, the allocator and the        *)
(* table's frames when map returns or panics.                              *)
(***************************************************************************)
\* Faulty variant of map_entry: the Valid flag is not added.
map_entry_as_given(ppn, flags) == PageTableEntry_new(ppn, flags)

\* The leaf entry map installs: PageTableEntry::new(ppn, flags | PTEFlags::V)
map_entry(ppn, flags) == PageTableEntry_new(ppn, flags \cup PTEFlags_V)

\* Faulty variant of map_assert: the assertion is missing.
map_assert_missing(pte) == TRUE

\* assert!(!pte.is_valid(), "vpn {:?} is mapped before mapping", vpn)
map_assert(pte) == ~is_valid(pte)

\* Faulty variant of map: the leaf slot is taken at index[1], not index[2].
map_wrong_slot(m, fr, owned, root, vpn, ppn, flags, pick0, pick1) ==
    LET w == find_pte_create(m, fr, owned, root, vpn, pick0, pick1)
        idx == indexes(vpn)[2]
        out == [mem |-> w.mem, free |-> w.free, frames |-> w.frames,
                panic |-> w.panic]
    IN  IF w.panic # Running THEN out
        ELSE IF ~map_assert(w.mem[w.ppn][idx])
        THEN [out EXCEPT !.panic = PanicMapAssert]
        ELSE [out EXCEPT !.mem = [w.mem EXCEPT ![w.ppn][idx] = map_entry(ppn, flags)]]

map(m, fr, owned, root, vpn, ppn, flags, pick0, pick1) ==
    LET w == find_pte_create(m, fr, owned, root, vpn, pick0, pick1)
        idx == indexes(vpn)[3]
        out == [mem |-> w.mem, free |-> w.free, frames |-> w.frames,
                panic |-> w.panic]
    IN  IF w.panic # Running THEN out
        ELSE IF ~map_assert(w.mem[w.ppn][idx])
        THEN [out EXCEPT !.panic = PanicMapAssert]
        ELSE [out EXCEPT !.mem = [w.mem EXCEPT ![w.ppn][idx] = map_entry(ppn, flags)]]

\* Every way the call can end, over the frames the allocator may hand out.
map_outcomes(m, fr, owned, root, vpn, ppn, flags) ==
    LET st0 == walk_start(m, fr, owned, root)
        idxs == indexes(vpn)
    IN  UNION { { map(m, fr, owned, root, vpn, ppn, flags, pick0, pick1) :
                      pick1 \in offers(create_step(st0, idxs[1], pick0), idxs[2]) } :
                  pick0 \in offers(st0, idxs[1]) }

(***************************************************************************)
(* PageTable::unmap                                                        *)
(***************************************************************************)
\* Faulty variant of unmap_entry: only the Valid bit is cleared.
unmap_entry_clear_valid(pte) == pte \ PTEFlags_V

\* The entry unmap leaves in the leaf slot that held pte.
unmap_entry(pte) == PageTableEntry_empty

\* Faulty variant of unmap_assert: the assertion is missing.
unmap_assert_missing(pte) == TRUE

\* assert!(pte.is_valid(), "vpn {:?} is invalid before unmapping", vpn)
unmap_assert(pte) == is_valid(pte)

\* Faulty variant of unmap: a leaf node left without a valid entry is
\* unlinked from its second-level node.
unmap_unlinking(m, root, vpn) ==
    LET s == find_pte(m, root, vpn)
        idxs == indexes(vpn)
        ppn1 == PageTableEntry_ppn(m[root][idxs[1]])
        cleared == [m EXCEPT ![s.ppn][s.idx] = unmap_entry(m[s.ppn][s.idx])]
    IN  IF ~s.some
        THEN [mem |-> m, panic |-> PanicUnmapUnwrap]
        ELSE IF ~unmap_assert(m[s.ppn][s.idx])
        THEN [mem |-> m, panic |-> PanicUnmapAssert]
        ELSE IF \A i \in Slots : ~is_valid(cleared[s.ppn][i])
        THEN [mem   |-> [cleared EXCEPT ![ppn1][idxs[2]] = PageTableEntry_empty],
              panic |-> Running]
        ELSE [mem |-> cleared, panic |-> Running]

unmap(m, root, vpn) ==
    LET s == find_pte(m, root, vpn)
    IN  IF ~s.some
        THEN [mem |-> m, panic |-> PanicUnmapUnwrap]
        ELSE IF ~unmap_assert(m[s.ppn][s.idx])
        THEN [mem |-> m, panic |-> PanicUnmapAssert]
        ELSE [mem   |-> [m EXCEPT ![s.ppn][s.idx] = unmap_entry(m[s.ppn][s.idx])],
              panic |-> Running]

\* Faulty variant of new: the root's FrameTracker is not kept in frames.
new_untracked(frame) == [root_ppn |-> frame, frames |-> <<>>]

(***************************************************************************)
(* PageTable::new and PageTable::from_token                                *)
(***************************************************************************)
\* PageTable { root_ppn: frame.ppn, frames: vec![frame] }
new(frame) == [root_ppn |-> frame, frames |-> <<frame>>]

\* Faulty variant of from_token: the word is wrapped as it is, unmasked.
from_token_raw(satp) == [root_ppn |-> satp, frames |-> <<>>]

\* Faulty variant of from_token: the view records the root as a frame of its own.
from_token_owning(satp) ==
    [root_ppn |-> PhysPageNum_from(satp \cap LowMask(44)),
     frames |-> <<PhysPageNum_from(satp \cap LowMask(44))>>]

\* Self { root_ppn: PhysPageNum::from(satp & ((1usize << 44) - 1)),
\*        frames: Vec::new() }
from_token(satp) ==
    [root_ppn |-> PhysPageNum_from(satp \cap LowMask(44)), frames |-> <<>>]

(***************************************************************************)
(* The steps.                                                              *)
(***************************************************************************)
\* Tables are constructed in the order of their ids; 0: none is left.
NextId ==
    IF \A t \in TableIds : built[t] # "none" THEN 0
    ELSE CHOOSE t \in TableIds :
            built[t] = "none" /\ \A u \in TableIds : built[u] = "none" => t <= u

New(t) ==
    /\ halted = Running
    /\ t = NextId
    /\ IF free = {}
       THEN /\ halted' = PanicFrameAlloc
            /\ UNCHANGED <<mem, free, live, root_ppn, frames, built, called, latest>>
            /\ UNCHANGED addrVars
       ELSE \E frame \in frame_alloc(free) :
            /\ mem' = frame_zeroed(mem, frame)
            /\ free' = free \ {frame}
            /\ live' = live \cup {t}
            /\ root_ppn' = [root_ppn EXCEPT ![t] = new(frame).root_ppn]
            /\ frames' = [frames EXCEPT ![t] = new(frame).frames]
            /\ built' = [built EXCEPT ![t] = "new"]
            /\ UNCHANGED <<halted, called, latest>>
            /\ UNCHANGED addrVars

\* The satp words that name the root of a table that exists.
Tokens == {root_ppn[o] \cup h : o \in live, h \in SatpHigh}

FromToken(t, satp) ==
    /\ halted = Running
    /\ t = NextId
    /\ live' = live \cup {t}
    /\ root_ppn' = [root_ppn EXCEPT ![t] = from_token(satp).root_ppn]
    /\ frames' = [frames EXCEPT ![t] = from_token(satp).frames]
    /\ built' = [built EXCEPT ![t] = "token"]
    /\ UNCHANGED <<mem, free, halted, called, latest>>
    /\ UNCHANGED addrVars

Map(t, vpn, ppn, flags) ==
    /\ halted = Running
    /\ t \in live
    /\ \E r \in map_outcomes(mem, free, frames[t], root_ppn[t], vpn, ppn, flags) :
        /\ mem' = r.mem
        /\ free' = r.free
        /\ frames' = [frames EXCEPT ![t] = r.frames]
        /\ halted' = r.panic
        /\ called' = IF r.panic # Running THEN called
                     ELSE [called EXCEPT ![t] = @ \cup {vpn}]
    /\ UNCHANGED <<live, root_ppn, built>>
    /\ UNCHANGED addrVars

Unmap(t, vpn) ==
    /\ halted = Running
    /\ t \in live
    /\ mem' = unmap(mem, root_ppn[t], vpn).mem
    /\ halted' = unmap(mem, root_ppn[t], vpn).panic
    /\ UNCHANGED <<free, live, root_ppn, frames, built, called>>
    /\ UNCHANGED addrVars

\* translate takes &self and returns a copy: nothing changes.
Translate(t, vpn) ==
    /\ halted = Running
    /\ t \in live
    /\ translate(mem, root_ppn[t], vpn).some \in BOOLEAN
    /\ UNCHANGED vars

\* The PageTable is dropped: every FrameTracker of frames is dropped and
\* its frame goes back to the allocator.
Drop(t) ==
    /\ halted = Running
    /\ t \in live
    /\ free' = frame_dealloc(free, frames[t])
    /\ live' = live \ {t}
    /\ root_ppn' = [root_ppn EXCEPT ![t] = NoPPN]
    /\ frames' = [frames EXCEPT ![t] = <<>>]
    /\ built' = [built EXCEPT ![t] = "dropped"]
    /\ called' = [called EXCEPT ![t] = {}]
    /\ latest' = [latest EXCEPT ![t] = [v \in VPNS |-> NoOp]]
    /\ UNCHANGED <<mem, halted>>
    /\ UNCHANGED addrVars

(***************************************************************************)
(* Specifications.                                                         *)
(*                                                                         *)
(* Spec: every table is used as documented: map and unmap are called on    *)
(* tables built by new(); a table built by from_token is only read.        *)
(* SpecViews: map and unmap are called on any table; here a table is       *)
(* dropped only when no other table reaches one of its frames, so that no  *)
(* walk goes through a frame the allocator has taken back.                 *)
(***************************************************************************)
\* The (ppn, flags) arguments map is called with.
MapArgs ==
    { <<ToWord(524288), PTEFlags_R \cup PTEFlags_W>>,
      <<LowMask(PPN_WIDTH_SV39), PTEFlags_V \cup PTEFlags_X \cup PTEFlags_U>> }

\* The history of the calls that returned, kept where the properties read
\* it (Spec) and left alone elsewhere (SpecViews).
Record(t, vpn, entry) ==
    latest' = IF halted' # Running THEN latest
              ELSE [latest EXCEPT ![t][vpn] = entry]

MapCall(t) ==
    \E vpn \in VPNS, a \in MapArgs :
        Map(t, vpn, a[1], a[2]) /\ Record(t, vpn, MapOp(a[1], a[2]))

UnmapCall(t) == \E vpn \in VPNS : Unmap(t, vpn) /\ Record(t, vpn, UnmapOp)

MapCallOnAny(t) ==
    \E vpn \in VPNS, a \in MapArgs : Map(t, vpn, a[1], a[2]) /\ UNCHANGED latest

UnmapCallOnAny(t) == \E vpn \in VPNS : Unmap(t, vpn) /\ UNCHANGED latest

TranslateCall(t) == \E vpn \in VPNS : Translate(t, vpn)

FromTokenCall(t) == \E satp \in Tokens : FromToken(t, satp)

Next ==
    \/ \E t \in TableIds : New(t)
    \/ \E t \in TableIds : FromTokenCall(t)
    \/ \E t \in TableIds : built[t] = "new" /\ MapCall(t)
    \/ \E t \in TableIds : built[t] = "new" /\ UnmapCall(t)
    \/ \E t \in TableIds : TranslateCall(t)
    \/ \E t \in TableIds : Drop(t)

Spec == Init /\ [][Next]_vars

\* The valid entries of node n.
ValidEntries(m, n) == {m[n][i] : i \in {j \in Slots : is_valid(m[n][j])}}

\* The frames a table walks as page-table nodes: its root, the targets of the
\* valid entries of the root, and the targets of the valid entries of those.
Nodes(m, root) ==
    LET level1 == {PageTableEntry_ppn(e) : e \in ValidEntries(m, root)}
        level2 == UNION {{PageTableEntry_ppn(e) : e \in ValidEntries(m, n)} : n \in level1}
    IN  {root} \cup level1 \cup level2

Unreferenced(t) ==
    \A u \in live \ {t} : Nodes(mem, root_ppn[u]) \cap Range(frames[t]) = {}

NextViews ==
    \/ \E t \in TableIds : New(t)
    \/ \E t \in TableIds : FromTokenCall(t)
    \/ \E t \in TableIds : MapCallOnAny(t)
    \/ \E t \in TableIds : UnmapCallOnAny(t)
    \/ \E t \in TableIds : TranslateCall(t)
    \/ \E t \in TableIds : Unreferenced(t) /\ Drop(t)

SpecViews == Init /\ [][NextViews]_vars

(***************************************************************************)
(* SpecAddr: the conversions of address.rs and the packing of page-table   *)
(* entries, applied in a row to a raw word, in a build with or without     *)
(* overflow checks.  No PageTable is constructed.                          *)
(***************************************************************************)
\* Raw words: zero, around a page boundary, around bits 38/39 (VirtAddr),
\* 27 (VirtPageNum), 44 (PhysPageNum), 56 (PhysAddr), and the top of usize.
RawWords ==
    { {}, {0}, LowMask(12), {12}, {0, 12}, {13}, {1, 13},
      {37}, {38}, {12, 38}, LowMask(39), LowMask(39) \ LowMask(12), {39}, {5, 39},
      {26}, LowMask(27), {27}, {43}, LowMask(44), {44},
      {55}, LowMask(56), LowMask(56) \ LowMask(12), {56},
      {63}, {12, 38, 63}, WordBits \ LowMask(12), WordBits }

\* Flag arguments of PageTableEntry::new: every PTEFlags value.
FlagSets == SUBSET LowMask(8)

tableVars == <<mem, free, live, root_ppn, frames, built, called, latest>>

InitAddr ==
    /\ InitTables
    /\ overflow_checks \in BOOLEAN
    /\ arg \in RawWords
    /\ ty = "usize"
    /\ val = arg
    /\ steps = <<>>

\* One conversion: from a value of type `from`, op yields r, a value of type
\* `to` or a panic.
Apply(op, from, to, r, f) ==
    /\ halted = Running
    /\ Len(steps) < MaxSteps
    /\ ty = from
    /\ halted' = r.panic
    /\ steps' = Append(steps, [op |-> op, in |-> val, flags |-> f])
    /\ IF r.panic = Running THEN ty' = to /\ val' = r.val
       ELSE UNCHANGED <<ty, val>>
    /\ UNCHANGED <<tableVars, overflow_checks, arg>>

PhysAddrFromUsize ==
    Apply("PhysAddr::from(usize)", "usize", "PhysAddr", Ok(PhysAddr_from(val)), {})
PhysPageNumFromUsize ==
    Apply("PhysPageNum::from(usize)", "usize", "PhysPageNum", Ok(PhysPageNum_from(val)), {})
VirtAddrFromUsize ==
    Apply("VirtAddr::from(usize)", "usize", "VirtAddr", Ok(VirtAddr_from(val)), {})
VirtPageNumFromUsize ==
    Apply("VirtPageNum::from(usize)", "usize", "VirtPageNum", Ok(VirtPageNum_from(val)), {})

UsizeFromPhysAddr ==
    Apply("usize::from(PhysAddr)", "PhysAddr", "usize", Ok(usize_from_PhysAddr(val)), {})
UsizeFromPhysPageNum ==
    Apply("usize::from(PhysPageNum)", "PhysPageNum", "usize", Ok(usize_from_PhysPageNum(val)), {})
UsizeFromVirtAddr ==
    Apply("usize::from(VirtAddr)", "VirtAddr", "usize", Ok(usize_from_VirtAddr(val)), {})
UsizeFromVirtPageNum ==
    Apply("usize::from(VirtPageNum)", "VirtPageNum", "usize", Ok(usize_from_VirtPageNum(val)), {})

VirtAddrFloor ==
    Apply("VirtAddr::floor", "VirtAddr", "VirtPageNum", Ok(VirtAddr_floor(val)), {})
VirtAddrCeil ==
    Apply("VirtAddr::ceil", "VirtAddr", "VirtPageNum", VirtAddr_ceil(val, overflow_checks), {})
PhysAddrFloor ==
    Apply("PhysAddr::floor", "PhysAddr", "PhysPageNum", Ok(PhysAddr_floor(val)), {})
PhysAddrCeil ==
    Apply("PhysAddr::ceil", "PhysAddr", "PhysPageNum", PhysAddr_ceil(val, overflow_checks), {})

VirtPageNumFromVirtAddr ==
    Apply("VirtPageNum::from(VirtAddr)", "VirtAddr", "VirtPageNum",
          VirtPageNum_from_VirtAddr(val), {})
VirtAddrFromVirtPageNum ==
    Apply("VirtAddr::from(VirtPageNum)", "VirtPageNum", "VirtAddr",
          Ok(VirtAddr_from_VirtPageNum(val)), {})
PhysPageNumFromPhysAddr ==
    Apply("PhysPageNum::from(PhysAddr)", "PhysAddr", "PhysPageNum",
          PhysPageNum_from_PhysAddr(val), {})
PhysAddrFromPhysPageNum ==
    Apply("PhysAddr::from(PhysPageNum)", "PhysPageNum", "PhysAddr",
          Ok(PhysAddr_from_PhysPageNum(val)), {})

PageTableEntryNew ==
    \E f \in FlagSets :
        Apply("PageTableEntry::new", "PhysPageNum", "PageTableEntry",
              Ok(PageTableEntry_new(val, f)), f)

NextAddr ==
    \/ PhysAddrFromUsize
    \/ PhysPageNumFromUsize
    \/ VirtAddrFromUsize
    \/ VirtPageNumFromUsize
    \/ UsizeFromPhysAddr
    \/ UsizeFromPhysPageNum
    \/ UsizeFromVirtAddr
    \/ UsizeFromVirtPageNum
    \/ VirtAddrFloor
    \/ VirtAddrCeil
    \/ PhysAddrFloor
    \/ PhysAddrCeil
    \/ VirtPageNumFromVirtAddr
    \/ VirtAddrFromVirtPageNum
    \/ PhysPageNumFromPhysAddr
    \/ PhysAddrFromPhysPageNum
    \/ PageTableEntryNew

SpecAddr == InitAddr /\ [][NextAddr]_vars

(***************************************************************************)
(* Properties.  A property of a call is stated over every call that can be *)
(* made in a reachable state: the operators map, unmap and translate are   *)
(* the ones the steps apply.                                               *)
(***************************************************************************)
Owners == {t \in live : built[t] = "new"}

Views == {t \in live : built[t] = "token"}

\* The leaf slot of vpn is reached and holds a valid entry.
LeafValid(m, root, vpn) ==
    translate(m, root, vpn).some /\ is_valid(translate(m, root, vpn).pte)

\* The ways map(vpn, a[1], a[2]) on table t can end in the current state.
MapOutcomes(t, vpn, a) ==
    map_outcomes(mem, free, frames[t], root_ppn[t], vpn, a[1], a[2])

\* C1: whenever the leaf slot of v is not valid and map(v, p, f) returns,
\* translate(v) is a present, valid entry whose ppn() is p and whose flags()
\* are f with V added.
C1_MapThenTranslate ==
    halted = Running =>
        \A t \in Owners, v \in VPNS, a \in MapArgs :
            \A r \in MapOutcomes(t, v, a) :
                (~LeafValid(mem, root_ppn[t], v) /\ r.panic = Running) =>
                    LET e == translate(r.mem, root_ppn[t], v)
                    IN  /\ e.some
                        /\ is_valid(e.pte)
                        /\ PageTableEntry_ppn(e.pte) = a[1]
                        /\ PageTableEntry_flags(e.pte) = a[2] \cup PTEFlags_V

\* map has returned for vpn 0x200 with the largest page number and V|X|U, and
\* with 0x80000 and R|W for vpn 0.
C1_Witness ==
    \E t \in Owners :
        /\ halted = Running
        /\ {ToWord(0), ToWord(512)} \subseteq called[t]
        /\ translate(mem, root_ppn[t], ToWord(512)) =
              [some |-> TRUE,
               pte |-> Shl(LowMask(44), 10) \cup {0, 3, 4}]
        /\ translate(mem, root_ppn[t], ToWord(0)) =
              [some |-> TRUE, pte |-> {29} \cup {0, 1, 2}]

\* C2: whenever unmap(v) returns on a table on which map(v, ..) had returned,
\* translate(v) is a present entry equal to the all-zero entry.
C2_UnmapThenTranslate ==
    halted = Running =>
        \A t \in Owners, v \in VPNS :
            LET u == unmap(mem, root_ppn[t], v)
            IN  (v \in called[t] /\ u.panic = Running) =>
                    /\ translate(u.mem, root_ppn[t], v) =
                          [some |-> TRUE, pte |-> PageTableEntry_empty]
                    /\ ~is_valid(translate(u.mem, root_ppn[t], v).pte)

\* unmap has returned for a vpn that had been mapped and that shares its leaf
\* node with no mapped vpn: the path is still there, the slot is zero.
C2_Witness ==
    \E t \in Owners :
        /\ halted = Running
        /\ ToWord(512) \in called[t]
        /\ translate(mem, root_ppn[t], ToWord(512)) = [some |-> TRUE, pte |-> {}]

\* C3: map(v, p, f) on a valid leaf slot panics for every p and f, and leaves
\* memory, the allocator and the table's frames as they were.
C3_DoubleMapHalts ==
    halted = Running =>
        \A t \in Owners, v \in VPNS, a \in MapArgs :
            LeafValid(mem, root_ppn[t], v) =>
                \A r \in MapOutcomes(t, v, a) :
                    /\ r.panic = PanicMapAssert
                    /\ r.mem = mem
                    /\ r.free = free
                    /\ r.frames = frames[t]

\* The machine has halted on map's assertion, the mapping still in place.
C3_Witness ==
    /\ halted = PanicMapAssert
    /\ \E t \in Owners, v \in VPNS : v \in called[t] /\ LeafValid(mem, root_ppn[t], v)

\* C4: unmap(v) panics exactly when the leaf slot of v is not valid: on the
\* unwrap when an intermediate entry is invalid, on the assertion when the
\* path is there and the slot is invalid.
C4_UnmapUnmappedHalts ==
    halted = Running =>
        \A t \in Owners, v \in VPNS :
            LET u == unmap(mem, root_ppn[t], v)
                idxs == indexes(v)
                e0 == mem[root_ppn[t]][idxs[1]]
                e1 == mem[PageTableEntry_ppn(e0)][idxs[2]]
                e2 == mem[PageTableEntry_ppn(e1)][idxs[3]]
            IN  /\ (~is_valid(e0) \/ ~is_valid(e1)) => u.panic = PanicUnmapUnwrap
                /\ (is_valid(e0) /\ is_valid(e1) /\ ~is_valid(e2))
                        => u.panic = PanicUnmapAssert
                /\ (is_valid(e0) /\ is_valid(e1) /\ is_valid(e2)) => u.panic = Running
                /\ u.panic # Running => u.mem = mem

\* The machine has halted on unmap's assertion: the path of some vpn is there
\* and its slot is invalid.
C4_Witness ==
    /\ halted = PanicUnmapAssert
    /\ \E t \in Owners, v \in VPNS :
          translate(mem, root_ppn[t], v) = [some |-> TRUE, pte |-> {}]

\* The frames map(.., vpn, ..) calls have made a table allocate: one per
\* distinct index[0], one per distinct (index[0], index[1]).
NodesCalledFor(vpns) ==
    Cardinality({indexes(v)[1] : v \in vpns})
        + Cardinality({<<indexes(v)[1], indexes(v)[2]>> : v \in vpns})

C6_NodesOwned ==
    \A t \in Owners : Nodes(mem, root_ppn[t]) \subseteq Range(frames[t])

\* A table with a root, a second-level node and two leaf nodes.
C6_Witness ==
    \E t \in Owners :
        /\ Cardinality(Nodes(mem, root_ppn[t])) = 4
        /\ Cardinality(ValidEntries(mem, root_ppn[t])) = 1

\* C7: translate(v) is none exactly when the root entry at index[0] or the
\* second-level entry at index[1] is invalid; otherwise it is the content of
\* the slot at index[2], valid or not.
C7_TranslateAbsence ==
    \A t \in live, v \in VPNS :
        LET idxs == indexes(v)
            e0 == mem[root_ppn[t]][idxs[1]]
            e1 == mem[PageTableEntry_ppn(e0)][idxs[2]]
            e2 == mem[PageTableEntry_ppn(e1)][idxs[3]]
            r == translate(mem, root_ppn[t], v)
        IN  /\ ~r.some <=> (~is_valid(e0) \/ ~is_valid(e1))
            /\ r.some => r.pte = e2

\* One table in which translate is none for the lack of a root entry (0x40000),
\* none for the lack of a second-level entry (0x200), an invalid slot (1) and a
\* valid one (0).
C7_Witness ==
    \E t \in live :
        /\ ~translate(mem, root_ppn[t], ToWord(262144)).some
        /\ is_valid(mem[root_ppn[t]][0])
        /\ ~translate(mem, root_ppn[t], ToWord(512)).some
        /\ translate(mem, root_ppn[t], ToWord(1)) = [some |-> TRUE, pte |-> {}]
        /\ LeafValid(mem, root_ppn[t], ToWord(0))

IsPrefix(s, t) == Len(s) <= Len(t) /\ \A i \in 1..Len(s) : s[i] = t[i]

\* The intermediate entries find_pte_create finds invalid on the path of vpn.
MissingNodes(m, root, vpn) ==
    LET idxs == indexes(vpn)
        pte0 == m[root][idxs[1]]
        pte1 == m[PageTableEntry_ppn(pte0)][idxs[2]]
    IN  IF ~is_valid(pte0) THEN 2 ELSE IF ~is_valid(pte1) THEN 1 ELSE 0

C8_ViewStep(t) ==
    /\ (built[t] = "none" /\ built'[t] = "token") => frames'[t] = <<>>
    /\ (built[t] = "token" /\ built'[t] = "token") =>
          \/ frames'[t] = frames[t]
          \/ \E v \in VPNS :
                /\ MissingNodes(mem, root_ppn[t], v) > 0
                /\ is_valid(mem'[root_ppn[t]][indexes(v)[1]])
                /\ IsPrefix(frames[t], frames'[t])
                /\ Len(frames'[t]) <= Len(frames[t]) + MissingNodes(mem, root_ppn[t], v)
                /\ halted' = Running =>
                      Len(frames'[t]) = Len(frames[t]) + MissingNodes(mem, root_ppn[t], v)
                /\ Range(frames'[t]) \ Range(frames[t]) = free \ free'
    /\ (built[t] = "token" /\ built'[t] = "dropped") =>
          free' = free \cup Range(frames[t])

NoDuplicates(s) == Cardinality(Range(s)) = Len(s)

\* Every frame taken from the allocator is in the owned collection of exactly
\* one live table, once.
ExclusivelyOwned ==
    /\ \A t \in live : NoDuplicates(frames[t]) /\ Range(frames[t]) \cap free = {}
    /\ \A t \in live, u \in live : t # u => Range(frames[t]) \cap Range(frames[u]) = {}
    /\ PoolPPNs \ free = UNION {Range(frames[t]) : t \in live}

\* C9 as the specification states it: exclusive ownership, and no frame is a
\* node (root or target of a valid non-leaf entry) of two live tables.
C9_NoFrameInTwoTables ==
    /\ ExclusivelyOwned
    /\ \A t \in live, u \in live :
          t # u => Nodes(mem, root_ppn[t]) \cap Nodes(mem, root_ppn[u]) = {}

\* C9 (amended): every allocated frame is in the owned collection of exactly
\* one table, once; with map and unmap invoked only on tables built by new(),
\* no frame is a node of two tables built by new().  (A table built by
\* from_token has as its root the root of the table its token names.)
C9_ExclusiveOwnership ==
    /\ ExclusivelyOwned
    /\ \A t \in Owners, u \in Owners :
          t # u => Nodes(mem, root_ppn[t]) \cap Nodes(mem, root_ppn[u]) = {}

\* Two tables built by new() are live and one of them has allocated the two
\* nodes of a path.
C9_Witness ==
    \E t \in Owners, u \in Owners :
        /\ t # u
        /\ Len(frames[t]) = 3
        /\ Cardinality(Nodes(mem, root_ppn[t])) = 3
        /\ Len(frames[u]) = 1

\* What one step does to the owned collections and to the allocator.
C10_Step ==
    /\ \A t \in live \cap live' : IsPrefix(frames[t], frames'[t])
    /\ \A t \in live \cap live' : Range(frames'[t]) \cap free' = {}
    /\ free' \ free = UNION {Range(frames[t]) : t \in live \ live'}

\* C10: while a table is live its owned collection only grows (each step keeps
\* what it held, in order) and none of its frames is with the allocator; the
\* frames that go back to the allocator in a step are exactly those owned by
\* the table the step destroys.
C10_FramesOnlyGrow == [][C10_Step]_vars

\* A table that had mapped has been destroyed (a frame back with the allocator
\* still holds one of its entries) and a later table owns three frames.
C10_Witness ==
    \E t \in TableIds, u \in Owners :
        /\ built[t] = "dropped"
        /\ Len(frames[u]) = 3
        /\ \E p \in free : ValidEntries(mem, p) # {}

\* C11: from_token of a word yields the low 44 bits of the word as root_ppn
\* and no frames; for the root r of a table and any contents of bits 44..63
\* of the word, from_token yields root_ppn = r and no frames, and
\* translate through that root returns for every vpn what translate on the
\* table returns; likewise for every table built by from_token that exists.
C11_FromTokenView ==
    halted = Running =>
        /\ \A w \in RawWords :
              /\ from_token(w).root_ppn = {b \in w : b < 44}
              /\ from_token(w).frames = <<>>
        /\ \A o \in Owners, h \in SatpHigh :
              LET view == from_token(root_ppn[o] \cup h)
              IN  /\ view.root_ppn = (root_ppn[o] \cup h) \cap (0..43)
                  /\ view.root_ppn = root_ppn[o]
                  /\ view.frames = <<>>
                  /\ \A v \in VPNS : translate(mem, view.root_ppn, v)
                                        = translate(mem, root_ppn[o], v)
        /\ \A t \in Views, o \in Owners :
              root_ppn[t] = root_ppn[o] =>
                  /\ Nodes(mem, root_ppn[t]) = Nodes(mem, root_ppn[o])
                  /\ \A v \in VPNS : translate(mem, root_ppn[t], v)
                                        = translate(mem, root_ppn[o], v)

\* A view of a table exists; the table has a mapped vpn, an unmapped slot
\* and a vpn with no path, and the view has no frames.
C11_Witness ==
    \E t \in Views, o \in Owners :
        /\ halted = Running
        /\ root_ppn[t] = root_ppn[o]
        /\ frames[t] = <<>>
        /\ LeafValid(mem, root_ppn[t], ToWord(0))
        /\ translate(mem, root_ppn[t], ToWord(1)) = [some |-> TRUE, pte |-> {}]
        /\ ~translate(mem, root_ppn[t], ToWord(262144)).some

\* The root-node and second-level nodes of a table: its root and the
\* targets of the valid entries of the root.
UpperNodes(m, root) ==
    {root} \cup {PageTableEntry_ppn(e) : e \in ValidEntries(m, root)}

\* translate(u) reports a valid entry with ppn p and flags f | V.
Reports(m, root, u, p, f) ==
    /\ LeafValid(m, root, u)
    /\ PageTableEntry_ppn(translate(m, root, u).pte) = p
    /\ PageTableEntry_flags(translate(m, root, u).pte) = f \cup PTEFlags_V

\* C18: on a table built by new(), translate(u) is a valid entry with ppn p
\* and flags f | V exactly when the map or unmap of u that returned last is
\* map(u, p, f); a map or an unmap of another vpn v leaves what translate(u)
\* returns for a mapped u as it was, whatever nodes u and v share.
C18_Independence ==
    /\ \A t \in Owners, u \in VPNS :
          /\ LeafValid(mem, root_ppn[t], u) <=> latest[t][u].op = "map"
          /\ latest[t][u].op = "map" =>
                Reports(mem, root_ppn[t], u, latest[t][u].ppn, latest[t][u].flags)
    /\ halted = Running =>
          \A t \in Owners, u \in VPNS, v \in VPNS :
              (v # u /\ LeafValid(mem, root_ppn[t], u)) =>
                  /\ translate(unmap(mem, root_ppn[t], v).mem, root_ppn[t], u)
                        = translate(mem, root_ppn[t], u)
                  /\ \A a \in MapArgs : \A r \in MapOutcomes(t, v, a) :
                        translate(r.mem, root_ppn[t], u)
                            = translate(mem, root_ppn[t], u)

\* vpn 0 is mapped; vpn 1, in the same leaf node, has been mapped and
\* unmapped since; vpn 0x200, under the same second-level node, is mapped
\* with other arguments.
C18_Witness ==
    \E t \in Owners :
        /\ halted = Running
        /\ latest[t][ToWord(0)] = MapOp(ToWord(524288), PTEFlags_R \cup PTEFlags_W)
        /\ latest[t][ToWord(1)] = UnmapOp
        /\ latest[t][ToWord(512)].op = "map"
        /\ latest[t][ToWord(512)] # latest[t][ToWord(0)]
        /\ Reports(mem, root_ppn[t], ToWord(0), ToWord(524288), PTEFlags_R \cup PTEFlags_W)

\* The step is an unmap(v) on t that returned.
UnmapReturned(t, v) == latest'[t][v] = UnmapOp /\ latest[t][v] # UnmapOp

\* C19: an unmap(v) that returns changes memory in the leaf slot of v only,
\* which becomes the all-zero entry; frames of every table, the allocator,
\* the root and every other entry stay as they are (no node is unlinked or
\* released, even one left without a valid entry).
C19_UnmapFrame ==
    [][\A t \in TableIds, v \in VPNS :
          UnmapReturned(t, v) =>
              LET s == find_pte(mem, root_ppn[t], v)
              IN  /\ s.some
                  /\ mem' = [mem EXCEPT ![s.ppn][s.idx] = {}]
                  /\ frames' = frames
                  /\ root_ppn' = root_ppn
                  /\ free' = free
                  /\ live' = live]_vars

\* The only vpn mapped on a table has been unmapped: its leaf node holds no
\* valid entry and is still linked and owned.
C19_Witness ==
    \E t \in Owners :
        /\ halted = Running
        /\ called[t] = {ToWord(0)}
        /\ latest[t][ToWord(0)] = UnmapOp
        /\ translate(mem, root_ppn[t], ToWord(0)) = [some |-> TRUE, pte |-> {}]
        /\ Cardinality(Nodes(mem, root_ppn[t])) = 3
        /\ Len(frames[t]) = 3

\* C20: on a table built by new(), every valid entry of the root node and of
\* a second-level node has exactly the flag V and points to a frame of the
\* table's frames; a map leaves every valid entry of those nodes as it is,
\* and writes in them only at the slots index[0] (root) and index[1]
\* (second level) of its vpn.
C20_IntermediateEntries ==
    /\ \A t \in Owners : \A n \in UpperNodes(mem, root_ppn[t]) :
          \A e \in ValidEntries(mem, n) :
              /\ PageTableEntry_flags(e) = PTEFlags_V
              /\ PageTableEntry_ppn(e) \in Range(frames[t])
              /\ PageTableEntry_ppn(e) \in PoolPPNs
    /\ halted = Running =>
          \A t \in Owners, v \in VPNS, a \in MapArgs : \A r \in MapOutcomes(t, v, a) :
              \A n \in UpperNodes(mem, root_ppn[t]), i \in Slots :
                  /\ is_valid(mem[n][i]) => r.mem[n][i] = mem[n][i]
                  /\ r.mem[n][i] # mem[n][i] =>
                        \/ n = root_ppn[t] /\ i = indexes(v)[1]
                        \/ /\ n = PageTableEntry_ppn(r.mem[root_ppn[t]][indexes(v)[1]])
                           /\ i = indexes(v)[2]

\* Two leaves with R|W and X|U are mapped under one second-level node, which
\* holds two valid entries.
C20_Witness ==
    \E t \in Owners :
        /\ halted = Running
        /\ latest[t][ToWord(0)].op = "map"
        /\ latest[t][ToWord(512)].op = "map"
        /\ \E n \in UpperNodes(mem, root_ppn[t]) \ {root_ppn[t]} :
              Cardinality({i \in Slots : is_valid(mem[n][i])}) = 2

(***************************************************************************)
(* Properties of the conversions (SpecAddr).  Each is stated of the        *)
(* conversion applied last, its input and the value it left.               *)
(***************************************************************************)
Last == steps[Len(steps)]

\* The conversion applied last is op.
Done(op) == steps # <<>> /\ Last.op = op

\* The conversion applied last is op and the one before it is before.
DoneAfter(op, before) ==
    /\ Len(steps) >= 2
    /\ Last.op = op
    /\ steps[Len(steps) - 1].op = before

\* The input of the conversion before the last one.
Before == steps[Len(steps) - 1].in

\* w mod 2^n
Mod2(w, n) == {b \in w : b < n}

\* w div 4096, and the mathematical ceiling of w / 4096
Quotient4096(w) == {b - 12 : b \in {x \in w : x >= 12}}
Ceiling4096(w) ==
    IF Mod2(w, 12) = {} THEN Quotient4096(w)
    ELSE wrapping_add(Quotient4096(w), {0})

\* C12: construction from a raw word w never fails and leaves w mod 2^56
\* (PhysAddr), w mod 2^44 (PhysPageNum), w mod 2^27 (VirtPageNum),
\* w mod 2^39 (VirtAddr).
C12_FromUsizeMasks ==
    /\ Done("PhysAddr::from(usize)") =>
          halted = Running /\ ty = "PhysAddr" /\ val = Mod2(Last.in, 56)
    /\ Done("PhysPageNum::from(usize)") =>
          halted = Running /\ ty = "PhysPageNum" /\ val = Mod2(Last.in, 44)
    /\ Done("VirtPageNum::from(usize)") =>
          halted = Running /\ ty = "VirtPageNum" /\ val = Mod2(Last.in, 27)
    /\ Done("VirtAddr::from(usize)") =>
          halted = Running /\ ty = "VirtAddr" /\ val = Mod2(Last.in, 39)

\* PhysAddr::from(usize::MAX) is 2^56 - 1.
C12_Witness ==
    /\ Done("PhysAddr::from(usize)")
    /\ Last.in = WordBits
    /\ val = 0..55

\* C13: widening a VirtAddr that holds a 39-bit v gives v with bits 39..63
\* all set when bit 38 of v is set, and v itself when it is clear; and
\* VirtAddr::from of the widened word is v again.
C13_VirtAddrSignExtension ==
    /\ (Done("usize::from(VirtAddr)") /\ Last.in \subseteq 0..38) =>
          /\ halted = Running
          /\ 38 \in Last.in => val = Last.in \cup (39..63)
          /\ 38 \notin Last.in => val = Last.in
    /\ (DoneAfter("VirtAddr::from(usize)", "usize::from(VirtAddr)")
            /\ Before \subseteq 0..38) =>
          halted = Running /\ val = Before

\* The VirtAddr 2^38 + 4096 has been widened to 0xFFFFFFC000001000 and
\* narrowed back.
C13_Witness ==
    /\ DoneAfter("VirtAddr::from(usize)", "usize::from(VirtAddr)")
    /\ Before = {12, 38}
    /\ Last.in = {12} \cup (38..63)
    /\ val = {12, 38}

\* C14: for a page-aligned PhysAddr a below 2^56,
\* PhysAddr::from(PhysPageNum::from(a)) = a; for a VirtPageNum p below 2^27,
\* VirtPageNum::from(VirtAddr::from(p)) = p, and the alignment assertion
\* does not fire.
C14_RoundTrip ==
    /\ (Done("PhysPageNum::from(PhysAddr)")
            /\ Last.in \subseteq 0..55 /\ Mod2(Last.in, 12) = {}) =>
          halted = Running
    /\ (DoneAfter("PhysAddr::from(PhysPageNum)", "PhysPageNum::from(PhysAddr)")
            /\ Before \subseteq 0..55) =>
          halted = Running /\ ty = "PhysAddr" /\ val = Before
    /\ (DoneAfter("VirtPageNum::from(VirtAddr)", "VirtAddr::from(VirtPageNum)")
            /\ Before \subseteq 0..26) =>
          halted = Running /\ ty = "VirtPageNum" /\ val = Before

\* The largest VirtPageNum, 2^27 - 1, has gone to VirtAddr 0x7FFFFFF000 and
\* back.
C14_Witness ==
    /\ DoneAfter("VirtPageNum::from(VirtAddr)", "VirtAddr::from(VirtPageNum)")
    /\ Before = LowMask(27)
    /\ Last.in = 12..38
    /\ val = LowMask(27)
    /\ halted = Running

C16_AlignmentAssert ==
    /\ (Done("PhysPageNum::from(PhysAddr)") \/ Done("VirtPageNum::from(VirtAddr)")) =>
          IF Mod2(Last.in, 12) # {}
          THEN halted = PanicAssertEq
          ELSE halted = Running /\ val = Quotient4096(Last.in)
    /\ (Done("PhysAddr::from(PhysPageNum)") \/ Done("VirtAddr::from(VirtPageNum)")) =>
          /\ halted = Running
          /\ val = {b + 12 : b \in {x \in Last.in : x + 12 <= 63}}

\* VirtPageNum::from(VirtAddr(4097)) has halted the machine.
C16_Witness ==
    /\ Done("VirtPageNum::from(VirtAddr)")
    /\ Last.in = {0, 12}
    /\ halted = PanicAssertEq

\* The address a rounded by floor or ceil is within its type's width.
InWidth ==
    \/ (Done("PhysAddr::floor") \/ Done("PhysAddr::ceil")) /\ Last.in \subseteq 0..55
    \/ (Done("VirtAddr::floor") \/ Done("VirtAddr::ceil")) /\ Last.in \subseteq 0..38

\* floor and ceil of an address a >= 1 within the width.
RoundingFrom1 ==
    (InWidth /\ Last.in # {}) =>
        /\ halted = Running
        /\ (Done("PhysAddr::floor") \/ Done("VirtAddr::floor")) =>
              val = Quotient4096(Last.in)
        /\ (Done("PhysAddr::ceil") \/ Done("VirtAddr::ceil")) =>
              val = Ceiling4096(Last.in)

\* C17 as the specification states it: for a >= 1 ceil is the ceiling of
\* a / 4096 and floor the quotient; ceil of 0 wraps around and returns 0.
C17_CeilOfZeroWraps ==
    /\ RoundingFrom1
    /\ ((Done("PhysAddr::ceil") \/ Done("VirtAddr::ceil")) /\ Last.in = {}) =>
          halted = Running /\ val = {}

\* C17 (amended): for an address a >= 1 within the width, ceil is the
\* ceiling of a / 4096 and floor is a / 4096 rounded down (equal for an
\* aligned a, one apart otherwise); for a = 0, ceil returns 0 = floor(0) by
\* wraparound in a build without overflow checks and halts on the
\* subtraction in a build with overflow checks.
C17_Rounding ==
    /\ RoundingFrom1
    /\ ((Done("PhysAddr::ceil") \/ Done("VirtAddr::ceil")) /\ Last.in = {}) =>
          IF overflow_checks THEN halted = PanicOverflow
          ELSE halted = Running /\ val = {}
    /\ ((Done("PhysAddr::floor") \/ Done("VirtAddr::floor")) /\ Last.in = {}) =>
          halted = Running /\ val = {}

\* VirtAddr(0).ceil() has halted a build with overflow checks.
C17_Witness ==
    /\ Done("VirtAddr::ceil")
    /\ Last.in = {}
    /\ overflow_checks
    /\ halted = PanicOverflow

\* C21: a page number returned by rounding is within its declared width:
\* floor and ceil of a VirtAddr below 2^39 return a VirtPageNum below 2^27,
\* and floor and ceil of a PhysAddr below 2^56 return a PhysPageNum below
\* 2^44.
C21_RoundingWithinWidth ==
    (InWidth /\ halted = Running) =>
        /\ (Done("VirtAddr::floor") \/ Done("VirtAddr::ceil")) =>
              ty = "VirtPageNum" /\ val \subseteq 0..(VPN_WIDTH_SV39 - 1)
        /\ (Done("PhysAddr::floor") \/ Done("PhysAddr::ceil")) =>
              ty = "PhysPageNum" /\ val \subseteq 0..(PPN_WIDTH_SV39 - 1)

=============================================================================
